---- MODULE Spec2Model ----
(***************************************************************************)
(* Plugins controller of pygpt_net (controller/plugins/__init__.py).       *)
(*                                                                         *)
(* The controller owns the `enabled` dict and reaches into the plugin      *)
(* registry (window.core.plugins), the configuration store                 *)
(* (window.core.config), the event dispatcher and the UI widgets.  Every   *)
(* method of the class is an operator from a program state S to the        *)
(* program state it leaves behind; a raised Python exception is recorded   *)
(* in S.err and stops the rest of the handler, keeping the writes made     *)
(* before it.  One action per handler applies the operator to the current  *)
(* state.                                                                  *)
(***************************************************************************)
EXTENDS Integers, Sequences, FiniteSets, TLC

VARIABLES
    plugins,      \* window.core.plugins: registered plugin ids, in get_ids() order
    types,        \* the type attribute of each installed plugin class
    enabled,      \* self.enabled: insertion-ordered dict, a sequence of <<id, flag>>
    menu,         \* keys of window.ui.menu['plugins']
    checked,      \* the menu entries whose QAction is checked
    addon,        \* window.ui.plugin_addon[tag]: "default" until setVisible is called,
                  \* then "shown" (setVisible(True)) or "hidden" (setVisible(False))
    nodes,        \* window.ui.nodes['chat.plugins']: text and tooltip
    config,       \* window.core.config: the persisted plugins_enabled mapping
    calls,        \* calls made by the last handler, in order
    cmd_events,   \* events handed to window.controller.command by the last handler
    err,          \* exception that left the last handler, or "none"
    last,         \* the last handler run and its arguments
    pending       \* the enable/disable call that is inside dispatcher.dispatch, if any

vars == <<plugins, types, enabled, menu, checked, addon, nodes, config, calls, cmd_events, err, last, pending>>

-----------------------------------------------------------------------------
(* Bounds and the plugin population                                        *)

Ids == {"a", "b"}

MaxCfgLen == 2

MaxCmds == 3

\* calls a subscriber makes back into the controller during one dispatch
MaxCallbacks == 1

Ctxs == {"ctx1", "ctx2"}

CmdItems == { [cmd |-> "x"], [cmd |-> "y"], [foo |-> "1"], [k \in {} |-> "1"] }

HookOutcomes == {"ok", "AttributeError", "Exception"}

\* at most one plugin whose setup_ui / destroy hook fails
Hooks ==
    { h \in [Ids -> HookOutcomes] : \A i, j \in Ids : (h[i] # "ok" /\ h[j] # "ok") => i = j }

\* the installed plugin classes: which type tags each one carries
TypeAssignments ==
    { [a |-> {"audio.input"}, b |-> {"audio.output"}],
      [a |-> {"audio.input", "audio.output"}, b |-> {"cmd"}] }

-----------------------------------------------------------------------------
(* Python dict, insertion ordered: a sequence of <<key, value>> pairs      *)

EmptyDict == << >>

Keys(d) == [i \in 1..Len(d) |-> d[i][1]]

Has(d, k) == \E i \in 1..Len(d) : d[i][1] = k

Get(d, k) == d[CHOOSE i \in 1..Len(d) : d[i][1] = k][2]

Put(d, k, v) ==
    IF Has(d, k)
    THEN [i \in 1..Len(d) |-> IF d[i][1] = k THEN <<k, v>> ELSE d[i]]
    ELSE Append(d, <<k, v>>)

Pop(d, k) == SelectSeq(d, LAMBDA e : e[1] # k)

-----------------------------------------------------------------------------
(* Plugin registry (window.core.plugins)                                   *)

allowed_types == <<"audio.input", "audio.output", "cmd">>

PluginName(id) == IF id = "a" THEN "Alpha" ELSE "Beta"

get(S, id) == [name |-> PluginName(id), type |-> S.types[id]]

get_ids(S) == S.plugins

is_registered(S, id) == \E i \in 1..Len(S.plugins) : S.plugins[i] = id

core_plugins_unregister(S, id) ==
    [S EXCEPT !.plugins = SelectSeq(@, LAMBDA p : p # id)]

core_plugins_register(S, id) ==
    IF is_registered(S, id) THEN S ELSE [S EXCEPT !.plugins = Append(@, id)]

-----------------------------------------------------------------------------
(* Control flow: exceptions and the call log                               *)

ok(S) == S.err = "none"

raise(S, e) == IF ok(S) THEN [S EXCEPT !.err = e] ELSE S

call(S, c) == IF ok(S) THEN [S EXCEPT !.calls = Append(@, c)] ELSE S

-----------------------------------------------------------------------------
(* Plugins.is_enabled, has_type, is_type_enabled                           *)

\* is_enabled that trusts the map without asking the registry
is_enabled_stale(S, id) ==
    IF Has(S.enabled, id) THEN Get(S.enabled, id) ELSE FALSE

is_enabled(S, id) ==
    IF is_registered(S, id)
    THEN IF Has(S.enabled, id) THEN Get(S.enabled, id) ELSE FALSE
    ELSE FALSE

\* has_type answering for the registration instead of the tag
has_type_registered(S, id, type) ==
    is_registered(S, id)

has_type(S, id, type) ==
    IF is_registered(S, id)
    THEN IF type \in get(S, id).type THEN TRUE ELSE FALSE
    ELSE FALSE

RECURSIVE type_enabled_from(_, _, _)
type_enabled_from(S, type, i) ==
    IF i > Len(get_ids(S)) THEN FALSE
    ELSE LET id == get_ids(S)[i]
         IN  IF type \in get(S, id).type /\ is_enabled(S, id)
             THEN TRUE
             ELSE type_enabled_from(S, type, i + 1)

\* is_type_enabled that forgets to test is_enabled
is_type_enabled_any(S, type) ==
    \E i \in 1..Len(get_ids(S)) : type \in get(S, get_ids(S)[i]).type

is_type_enabled(S, type) == type_enabled_from(S, type, 1)

-----------------------------------------------------------------------------
(* Plugins.handle_enabled_types                                            *)

setVisible(S, tag, v) == [S EXCEPT !.addon[tag] = IF v THEN "shown" ELSE "hidden"]

\* handle_enabled_types that only ever hides the audio.input element
RECURSIVE handle_types_from_hide_only(_, _)
handle_types_from_hide_only(S, i) ==
    IF i > Len(allowed_types) THEN S
    ELSE LET type == allowed_types[i]
             S1 == IF type = "audio.input" \/ type = "audio.output"
                   THEN IF is_type_enabled(S, type)
                        THEN S
                        ELSE setVisible(S, type, FALSE)
                   ELSE S
         IN  handle_types_from_hide_only(S1, i + 1)

\* handle_enabled_types with the show path of audio.output wired
RECURSIVE handle_types_from_show_output(_, _)
handle_types_from_show_output(S, i) ==
    IF i > Len(allowed_types) THEN S
    ELSE LET type == allowed_types[i]
             S1 == IF type = "audio.input" \/ type = "audio.output"
                   THEN setVisible(S, type, is_type_enabled(S, type))
                   ELSE S
         IN  handle_types_from_show_output(S1, i + 1)

RECURSIVE handle_types_from(_, _)
handle_types_from(S, i) ==
    IF i > Len(allowed_types) THEN S
    ELSE LET type == allowed_types[i]
             S1 == IF type = "audio.input"
                   THEN IF is_type_enabled(S, type)
                        THEN setVisible(S, "audio.input", TRUE)
                        ELSE setVisible(S, "audio.input", FALSE)
                   ELSE IF type = "audio.output"
                   THEN IF is_type_enabled(S, type)
                        THEN S
                        ELSE setVisible(S, "audio.output", FALSE)
                   ELSE S
         IN  handle_types_from(S1, i + 1)

handle_enabled_types(S) ==
    IF ~ok(S) THEN S
    ELSE handle_types_from(call(S, <<"handle_enabled_types">>), 1)

-----------------------------------------------------------------------------
(* Plugins.update: menu check marks, then type visibility                  *)

RECURSIVE check_from(_, _)
check_from(S, i) ==
    IF ~ok(S) \/ i > Len(S.enabled) THEN S
    ELSE LET id == S.enabled[i][1]
         IN  IF S.enabled[i][2]
             THEN IF id \in S.menu
                  THEN check_from([S EXCEPT !.checked = @ \cup {id}], i + 1)
                  ELSE raise(S, "KeyError")
             ELSE check_from(S, i + 1)

\* update() that checks the enabled entries without unchecking the menu first
update_keep_checked(S) ==
    IF ~ok(S) THEN S
    ELSE handle_enabled_types(check_from(call(S, <<"update">>), 1))

update(S) ==
    IF ~ok(S) THEN S
    ELSE LET S0 == call(S, <<"update">>)
             S1 == [S0 EXCEPT !.checked = {}]
             S2 == check_from(S1, 1)
         IN  handle_enabled_types(S2)

-----------------------------------------------------------------------------
(* Plugins.update_info: summary label and tooltip                          *)

trans(key) == key

Digit(d) == <<"0", "1", "2", "3", "4", "5", "6", "7", "8", "9">>[d + 1]

RECURSIVE str(_)
str(n) == IF n < 10 THEN Digit(n) ELSE str(n \div 10) \o Digit(n % 10)

RECURSIVE join(_, _)
join(sep, list) ==
    IF Len(list) = 0 THEN ""
    ELSE IF Len(list) = 1 THEN list[1]
    ELSE list[1] \o sep \o join(sep, Tail(list))

RECURSIVE enabled_names_from(_, _)
enabled_names_from(S, i) ==
    IF i > Len(get_ids(S)) THEN << >>
    ELSE LET id == get_ids(S)[i]
         IN  IF is_enabled(S, id)
             THEN <<get(S, id).name>> \o enabled_names_from(S, i + 1)
             ELSE enabled_names_from(S, i + 1)

RECURSIVE count_enabled_from(_, _)
count_enabled_from(S, i) ==
    IF i > Len(get_ids(S)) THEN 0
    ELSE (IF is_enabled(S, get_ids(S)[i]) THEN 1 ELSE 0) + count_enabled_from(S, i + 1)

\* update_info that counts the entries of the map instead of the enabled plugins
update_info_count_entries(S) ==
    IF ~ok(S) THEN S
    ELSE LET S0 == call(S, <<"update_info">>)
             enabled_list == enabled_names_from(S0, 1)
             tooltip == join(" + ", enabled_list)
             c == Len(S0.enabled)
             count_str == IF c > 0
                          THEN "+ " \o str(c) \o " " \o trans("chatbox.plugins")
                          ELSE ""
         IN  [S0 EXCEPT !.nodes = [text |-> count_str, tooltip |-> tooltip]]

update_info(S) ==
    IF ~ok(S) THEN S
    ELSE LET S0 == call(S, <<"update_info">>)
             enabled_list == enabled_names_from(S0, 1)
             tooltip == join(" + ", enabled_list)
             c == IF Len(get_ids(S0)) > 0 THEN count_enabled_from(S0, 1) ELSE 0
             count_str == IF c > 0
                          THEN "+ " \o str(c) \o " " \o trans("chatbox.plugins")
                          ELSE ""
         IN  [S0 EXCEPT !.nodes = [text |-> count_str, tooltip |-> tooltip]]

-----------------------------------------------------------------------------
(* Plugins.enable, disable, toggle, unregister                             *)

Event(name, data) == [name |-> name, data |-> data]

dispatch(S, event) == call(S, <<"dispatch", event.name, event.data.value>>)

\* until_dispatch with the event published before the flag is written
until_dispatch_event_first(S, op, id) ==
    IF ~ok(S) THEN S
    ELSE LET S0 == call(S, <<op, id>>)
             B == dispatch(call(S0, <<"core.plugins." \o op, id>>), Event(op, [value |-> id]))
         IN  B

\* enable / disable of a registered id up to the synchronous dispatch of the
\* event (lines 108-115, 131-138): the part that has run when a subscriber is called
until_dispatch(S, op, id) ==
    IF ~ok(S) THEN S
    ELSE LET S0 == call(S, <<op, id>>)
             A == [S0 EXCEPT !.enabled = Put(@, id, op = "enable")]
             B == call(A, <<"core.plugins." \o op, id>>)
         IN  dispatch(B, Event(op, [value |-> id]))

\* the rest of enable / disable once dispatch has returned (lines 117-122, 140-145)
after_dispatch(S, id) ==
    LET D == IF has_type(S, id, "audio.input") \/ has_type(S, id, "audio.output")
             THEN call(S, <<"audio.update">>)
             ELSE S
    IN  update(update_info(D))

\* enable that only writes the flag when the id has no entry yet
enable_setdefault(S, id) ==
    IF ~ok(S) THEN S
    ELSE LET S0 == call(S, <<"enable", id>>)
             S1 == IF is_registered(S0, id)
                   THEN LET A == IF Has(S0.enabled, id) THEN S0
                                 ELSE [S0 EXCEPT !.enabled = Put(@, id, TRUE)]
                            B == call(A, <<"core.plugins.enable", id>>)
                            C == dispatch(B, Event("enable", [value |-> id]))
                        IN  IF has_type(C, id, "audio.input") \/ has_type(C, id, "audio.output")
                            THEN call(C, <<"audio.update">>)
                            ELSE C
                   ELSE S0
         IN  update(update_info(S1))

\* enable without the is_registered guard
enable_unchecked(S, id) ==
    IF ~ok(S) THEN S
    ELSE LET S0 == call(S, <<"enable", id>>)
             A == [S0 EXCEPT !.enabled = Put(@, id, TRUE)]
             B == call(A, <<"core.plugins.enable", id>>)
             C == dispatch(B, Event("enable", [value |-> id]))
             S1 == IF has_type(C, id, "audio.input") \/ has_type(C, id, "audio.output")
                   THEN call(C, <<"audio.update">>)
                   ELSE C
         IN  update(update_info(S1))

\* enable that publishes the event only when the flag changes
enable_on_change(S, id) ==
    IF ~ok(S) THEN S
    ELSE LET S0 == call(S, <<"enable", id>>)
             S1 == IF is_registered(S0, id)
                   THEN LET A == [S0 EXCEPT !.enabled = Put(@, id, TRUE)]
                            B == call(A, <<"core.plugins.enable", id>>)
                            C == IF Has(S0.enabled, id) /\ Get(S0.enabled, id)
                                 THEN B
                                 ELSE dispatch(B, Event("enable", [value |-> id]))
                        IN  IF has_type(C, id, "audio.input") \/ has_type(C, id, "audio.output")
                            THEN call(C, <<"audio.update">>)
                            ELSE C
                   ELSE S0
         IN  update(update_info(S1))

enable(S, id) ==
    IF ~ok(S) THEN S
    ELSE LET S0 == call(S, <<"enable", id>>)
             S1 == IF is_registered(S0, id)
                   THEN LET A == [S0 EXCEPT !.enabled = Put(@, id, TRUE)]
                            B == call(A, <<"core.plugins.enable", id>>)
                            C == dispatch(B, Event("enable", [value |-> id]))
                        IN  IF has_type(C, id, "audio.input") \/ has_type(C, id, "audio.output")
                            THEN call(C, <<"audio.update">>)
                            ELSE C
                   ELSE S0
         IN  update(update_info(S1))

disable(S, id) ==
    IF ~ok(S) THEN S
    ELSE LET S0 == call(S, <<"disable", id>>)
             S1 == IF is_registered(S0, id)
                   THEN LET A == [S0 EXCEPT !.enabled = Put(@, id, FALSE)]
                            B == call(A, <<"core.plugins.disable", id>>)
                            C == dispatch(B, Event("disable", [value |-> id]))
                        IN  IF has_type(C, id, "audio.input") \/ has_type(C, id, "audio.output")
                            THEN call(C, <<"audio.update">>)
                            ELSE C
                   ELSE S0
         IN  update(update_info(S1))

\* toggle that looks at the presence of an entry instead of is_enabled
toggle_by_presence(S, id) ==
    IF ~ok(S) THEN S
    ELSE LET S0 == call(S, <<"toggle", id>>)
             S1 == IF is_registered(S0, id)
                   THEN IF Has(S0.enabled, id) THEN disable(S0, id) ELSE enable(S0, id)
                   ELSE S0
             S2 == handle_enabled_types(S1)
         IN  call(S2, <<"ui.update_tokens">>)

\* toggle that returns at once for an unregistered id
toggle_early_return(S, id) ==
    IF ~ok(S) THEN S
    ELSE LET S0 == call(S, <<"toggle", id>>)
         IN  IF is_registered(S0, id)
             THEN LET S1 == IF is_enabled(S0, id) THEN disable(S0, id) ELSE enable(S0, id)
                      S2 == handle_enabled_types(S1)
                  IN  call(S2, <<"ui.update_tokens">>)
             ELSE S0

toggle(S, id) ==
    IF ~ok(S) THEN S
    ELSE LET S0 == call(S, <<"toggle", id>>)
             S1 == IF is_registered(S0, id)
                   THEN IF is_enabled(S0, id) THEN disable(S0, id) ELSE enable(S0, id)
                   ELSE S0
             S2 == handle_enabled_types(S1)
         IN  call(S2, <<"ui.update_tokens">>)

\* unregister that leaves the entry in the map
unregister_keep(S, id) ==
    IF ~ok(S) THEN S
    ELSE LET S0 == call(S, <<"unregister", id>>)
         IN  core_plugins_unregister(call(S0, <<"core.plugins.unregister", id>>), id)

\* unregister that pops without testing for the key
unregister_pop(S, id) ==
    IF ~ok(S) THEN S
    ELSE LET S0 == call(S, <<"unregister", id>>)
             S1 == core_plugins_unregister(call(S0, <<"core.plugins.unregister", id>>), id)
         IN  IF Has(S1.enabled, id)
             THEN [S1 EXCEPT !.enabled = Pop(@, id)]
             ELSE raise(S1, "KeyError")

\* unregister() that drops every flag instead of the one of id
unregister_clear(S, id) ==
    IF ~ok(S) THEN S
    ELSE LET S0 == call(S, <<"unregister", id>>)
             S1 == core_plugins_unregister(call(S0, <<"core.plugins.unregister", id>>), id)
         IN  [S1 EXCEPT !.enabled = EmptyDict]

unregister(S, id) ==
    IF ~ok(S) THEN S
    ELSE LET S0 == call(S, <<"unregister", id>>)
             S1 == core_plugins_unregister(call(S0, <<"core.plugins.unregister", id>>), id)
         IN  IF Has(S1.enabled, id)
             THEN [S1 EXCEPT !.enabled = Pop(@, id)]
             ELSE S1

-----------------------------------------------------------------------------
(* Plugins.load_config, setup_menu, setup_ui, setup, destroy               *)

RECURSIVE load_from(_, _)
load_from(S, i) ==
    IF ~ok(S) \/ i > Len(S.config.plugins_enabled) THEN S
    ELSE LET id == S.config.plugins_enabled[i][1]
         IN  IF Get(S.config.plugins_enabled, id)
             THEN load_from(enable(S, id), i + 1)
             ELSE load_from(S, i + 1)

load_config(S) ==
    IF ~ok(S) THEN S
    ELSE LET S0 == call(S, <<"load_config">>)
         IN  IF S0.config.has
             THEN load_from(S0, 1)
             ELSE raise(S0, "TypeError")

RECURSIVE menu_from(_, _)
menu_from(S, i) ==
    IF i > Len(get_ids(S)) THEN S
    ELSE LET id == get_ids(S)[i]
         IN  IF id \in S.menu
             THEN menu_from(S, i + 1)
             ELSE menu_from([S EXCEPT !.menu = @ \cup {id}], i + 1)

setup_menu(S) ==
    IF ~ok(S) THEN S
    ELSE menu_from(call(S, <<"setup_menu">>), 1)

RECURSIVE hooks_from(_, _, _, _)
hooks_from(S, hooks, name, i) ==
    IF ~ok(S) \/ i > Len(get_ids(S)) THEN S
    ELSE LET id == get_ids(S)[i]
             S1 == call(S, <<name, id>>)
         IN  IF hooks[id] = "Exception"
             THEN raise(S1, "Exception")
             ELSE hooks_from(S1, hooks, name, i + 1)

setup_ui(S, hooks) ==
    IF ~ok(S) THEN S
    ELSE LET S0 == call(S, <<"setup_ui">>)
         IN  handle_enabled_types(hooks_from(S0, hooks, "plugin.setup_ui", 1))

setup(S, hooks) ==
    IF ~ok(S) THEN S
    ELSE LET S0 == call(S, <<"setup">>)
         IN  update(load_config(setup_ui(setup_menu(S0), hooks)))

destroy(S, hooks) ==
    IF ~ok(S) THEN S
    ELSE hooks_from(call(S, <<"destroy">>), hooks, "core.plugins.destroy", 1)

-----------------------------------------------------------------------------
(* Plugins.get_tab_idx, apply_cmds                                         *)

NoneIdx == -1

RECURSIVE tab_idx_from(_, _, _)
tab_idx_from(S, plugin_id, i) ==
    IF i > Len(get_ids(S)) THEN NoneIdx
    ELSE IF get_ids(S)[i] = plugin_id THEN i - 1
    ELSE tab_idx_from(S, plugin_id, i + 1)

get_tab_idx(S, plugin_id) == tab_idx_from(S, plugin_id, 1)

has_cmd_key(cmd) == "cmd" \in DOMAIN cmd

\* apply_cmds that forwards the batch unfiltered
apply_cmds_all(S, ctx, cmds) ==
    IF ~ok(S) THEN S
    ELSE LET S0 == call(S, <<"apply_cmds">>)
             commands == cmds
         IN  IF Len(commands) = 0
             THEN S0
             ELSE [S0 EXCEPT !.cmd_events =
                       Append(@, [name |-> "cmd.execute",
                                  data |-> [commands |-> commands],
                                  ctx  |-> ctx])]

apply_cmds(S, ctx, cmds) ==
    IF ~ok(S) THEN S
    ELSE LET S0 == call(S, <<"apply_cmds">>)
             commands == SelectSeq(cmds, has_cmd_key)
         IN  IF Len(commands) = 0
             THEN S0
             ELSE [S0 EXCEPT !.cmd_events =
                       Append(@, [name |-> "cmd.execute",
                                  data |-> [commands |-> commands],
                                  ctx  |-> ctx])]

-----------------------------------------------------------------------------
(* The state machine                                                       *)

RECURSIVE DictsOver(_, _)
DictsOver(keys, n) ==
    IF n = 0 THEN { EmptyDict }
    ELSE LET shorter == DictsOver(keys, n - 1)
         IN  shorter \cup
             { Append(d, <<k, v>>) :
                 d \in { x \in shorter : Len(x) = n - 1 },
                 k \in keys, v \in BOOLEAN } 

Distinct(d) == \A i, j \in 1..Len(d) : d[i][1] = d[j][1] => i = j

Configs ==
    { [has |-> FALSE, plugins_enabled |-> EmptyDict] } \cup
    { [has |-> TRUE, plugins_enabled |-> d] :
        d \in { x \in DictsOver(Ids, MaxCfgLen) : Distinct(x) } }

\* the persisted mappings the controller is started with in Spec
StartupConfigs ==
    { [has |-> FALSE, plugins_enabled |-> EmptyDict],
      [has |-> TRUE, plugins_enabled |-> << <<"a", TRUE>>, <<"b", FALSE>> >>],
      [has |-> TRUE, plugins_enabled |-> << <<"b", TRUE>>, <<"a", TRUE>> >>] }

RECURSIVE SeqsUpTo(_, _)
SeqsUpTo(items, n) ==
    IF n = 0 THEN { << >> }
    ELSE LET shorter == SeqsUpTo(items, n - 1)
         IN  shorter \cup
             { Append(q, x) : q \in { y \in shorter : Len(y) = n - 1 }, x \in items }

Batches == SeqsUpTo(CmdItems, MaxCmds)

Cur ==
    [plugins |-> plugins, types |-> types, enabled |-> enabled, menu |-> menu, checked |-> checked,
     addon |-> addon, nodes |-> nodes, config |-> config,
     calls |-> calls, cmd_events |-> cmd_events, err |-> err]

\* a handler starts with an empty call log and no pending exception
Restart(S) == [S EXCEPT !.calls = << >>, !.cmd_events = << >>, !.err = "none"]

Begin == Restart(Cur)

Commit(S, l) ==
    /\ plugins' = S.plugins
    /\ types' = S.types
    /\ enabled' = S.enabled
    /\ menu' = S.menu
    /\ checked' = S.checked
    /\ addon' = S.addon
    /\ nodes' = S.nodes
    /\ config' = S.config
    /\ calls' = S.calls
    /\ cmd_events' = S.cmd_events
    /\ err' = S.err
    /\ last' = l
    /\ pending' = pending

Constructed ==
    /\ plugins = << >>
    /\ types \in TypeAssignments
    /\ enabled = EmptyDict
    /\ menu = {}
    /\ checked = {}
    /\ addon = [tag \in {"audio.input", "audio.output"} |-> "default"]
    /\ nodes = [text |-> "", tooltip |-> ""]
    /\ calls = << >>
    /\ cmd_events = << >>
    /\ err = "none"
    /\ last = [op |-> "init"]
    /\ pending = [op |-> "none"]

Init == Constructed /\ config \in StartupConfigs

InitCfg == Constructed /\ config \in Configs

Register(id) ==
    /\ ~is_registered(Cur, id)
    /\ Commit(core_plugins_register(Begin, id), [op |-> "register", id |-> id])

CoreUnregister(id) ==
    /\ is_registered(Cur, id)
    /\ Commit(core_plugins_unregister(Begin, id), [op |-> "core.plugins.unregister", id |-> id])

Setup(hooks) ==
    /\ hooks \in Hooks
    /\ Commit(setup(Begin, hooks), [op |-> "setup"])

Destroy(hooks) ==
    /\ hooks \in Hooks
    /\ Commit(destroy(Begin, hooks), [op |-> "destroy"])

LoadConfig ==
    \E S \in {load_config(Begin)} : Commit(S, [op |-> "load_config"])

Update ==
    \E S \in {update(Begin)} : Commit(S, [op |-> "update"])

UpdateInfo ==
    \E S \in {update_info(Begin)} : Commit(S, [op |-> "update_info"])

Enable(id) ==
    /\ id \in Ids
    /\ Commit(enable(Begin, id),
              [op |-> "enable", id |-> id, was |-> Has(enabled, id) /\ Get(enabled, id)])

Disable(id) ==
    /\ id \in Ids
    /\ Commit(disable(Begin, id),
              [op |-> "disable", id |-> id, was |-> Has(enabled, id) /\ Get(enabled, id)])

Toggle(id) ==
    /\ id \in Ids
    /\ Commit(toggle(Begin, id),
              [op |-> "toggle", id |-> id, was |-> Has(enabled, id) /\ Get(enabled, id)])

Unregister(id) ==
    /\ id \in Ids
    /\ Commit(unregister(Begin, id),
              [op |-> "unregister", id |-> id, was |-> Has(enabled, id) /\ Get(enabled, id)])

ApplyCmds(ctx, cmds) ==
    /\ ctx \in Ctxs
    /\ Commit(apply_cmds(Begin, ctx, cmds), [op |-> "apply_cmds", ctx |-> ctx, cmds |-> cmds])

Next ==
    \/ \E id \in Ids : Register(id)
    \/ \E hooks \in Hooks : Setup(hooks)
    \/ \E hooks \in Hooks : Destroy(hooks)
    \/ LoadConfig
    \/ Update
    \/ UpdateInfo
    \/ \E id \in Ids : Enable(id)
    \/ \E id \in Ids : Disable(id)
    \/ \E id \in Ids : Toggle(id)
    \/ \E id \in Ids : Unregister(id)

Spec == Init /\ [][Next]_vars

\* the registry may also drop a plugin without going through the controller
NextExt == Next \/ \E id \in Ids : CoreUnregister(id)

InitExt ==
    /\ Constructed
    /\ types = [a |-> {"audio.input"}, b |-> {"audio.output"}]
    /\ config = [has |-> TRUE, plugins_enabled |-> << <<"b", TRUE>>, <<"a", TRUE>> >>]

SpecExt == InitExt /\ [][NextExt]_vars

\* command batches handed to apply_cmds
NextCmds == \E ctx \in Ctxs, cmds \in Batches : ApplyCmds(ctx, cmds)

SpecCmds == Init /\ [][NextCmds]_vars

\* start-up under every persisted mapping
NextCfg ==
    \/ \E id \in Ids : Register(id)
    \/ \E hooks \in Hooks : Setup(hooks)
    \/ LoadConfig

SpecCfg == InitCfg /\ [][NextCfg]_vars

-----------------------------------------------------------------------------
(* Re-entrant calls: enable / disable in two steps around the dispatch,    *)
(* with the subscribers of the event calling back into the controller      *)

Store(S, l, p) ==
    /\ plugins' = S.plugins
    /\ types' = S.types
    /\ enabled' = S.enabled
    /\ menu' = S.menu
    /\ checked' = S.checked
    /\ addon' = S.addon
    /\ nodes' = S.nodes
    /\ config' = S.config
    /\ calls' = S.calls
    /\ cmd_events' = S.cmd_events
    /\ err' = S.err
    /\ last' = l
    /\ pending' = p

Idle == pending.op = "none"

\* enable(id) / disable(id) on a registered id reaches dispatcher.dispatch
DispatchBegin(op, id) ==
    /\ Idle
    /\ is_registered(Cur, id)
    /\ Store(until_dispatch(Begin, op, id),
             [op |-> "dispatch", id |-> id],
             [op |-> op, id |-> id, was |-> Has(enabled, id) /\ Get(enabled, id), callbacks |-> 0])

\* a subscriber of the event asks the controller is_enabled(id)
SubscriberObserves(id) ==
    /\ ~Idle
    /\ Store(Cur, [op |-> "subscriber.is_enabled", id |-> id, result |-> is_enabled(Cur, id)],
             pending)

\* a subscriber of the event calls toggle(id); an exception would leave
\* through dispatch and end the pending handler
SubscriberToggles(id) ==
    /\ ~Idle
    /\ pending.callbacks < MaxCallbacks
    /\ Store(toggle(Cur, id), [op |-> "subscriber.toggle", id |-> id],
             [pending EXCEPT !.callbacks = @ + 1])

\* dispatch returns and the handler runs to its end
DispatchEnd ==
    /\ ~Idle
    /\ Store(after_dispatch(Cur, pending.id),
             [op |-> pending.op, id |-> pending.id, was |-> pending.was],
             [op |-> "none"])

NextReentrant ==
    \/ Idle /\ \E id \in Ids : Register(id)
    \/ Idle /\ \E hooks \in Hooks : Setup(hooks)
    \/ Idle /\ \E id \in Ids : Toggle(id)
    \/ Idle /\ \E id \in Ids : Unregister(id)
    \/ \E op \in {"enable", "disable"}, id \in Ids : DispatchBegin(op, id)
    \/ \E id \in Ids : SubscriberObserves(id)
    \/ \E id \in Ids : SubscriberToggles(id)
    \/ DispatchEnd

SpecReentrant == InitExt /\ [][NextReentrant]_vars

-----------------------------------------------------------------------------
(* Properties                                                              *)

HasCall(cs, c) == \E i \in 1..Len(cs) : cs[i] = c

Dispatches(cs) == { i \in 1..Len(cs) : cs[i][1] = "dispatch" }

RegistryCalls(cs) ==
    { i \in 1..Len(cs) : cs[i][1] \in {"core.plugins.enable", "core.plugins.disable"} }

\* C1: the keys of the enabled map are always registered plugin ids, and
\* after unregister(id) the map has no entry for id.
C1_EnabledKeysRegistered ==
    /\ \A i \in 1..Len(enabled) : is_registered(Cur, enabled[i][1])
    /\ last.op = "unregister" => ~Has(enabled, last.id)

C1_Witness ==
    /\ last.op = "unregister"
    /\ last.was
    /\ Len(enabled) > 0

\* C2: is_enabled(id) is false for every id the registry does not report as
\* registered, before and after enable(id), also when the map still holds a
\* true entry for id.
C2_UnregisteredNeverEnabled ==
    \A id \in Ids :
        ~is_registered(Cur, id) =>
            /\ ~is_enabled(Cur, id)
            /\ ~is_enabled(enable(Begin, id), id)

C2_Witness ==
    /\ last.op = "enable"
    /\ ~is_registered(Cur, last.id)
    /\ Has(enabled, last.id)
    /\ Get(enabled, last.id)

\* C3: after enable(p) on a registered p, is_enabled(p) is true; after
\* disable(p) on a registered p, is_enabled(p) is false.
C3_EnableDisablePost ==
    /\ (last.op = "enable" /\ is_registered(Cur, last.id)) => is_enabled(Cur, last.id)
    /\ (last.op = "disable" /\ is_registered(Cur, last.id)) => ~is_enabled(Cur, last.id)

C3_Witness ==
    /\ last.op = "enable"
    /\ is_registered(Cur, last.id)
    /\ Has(enabled, last.id)
    /\ ~last.was
    /\ \E i \in 1..Len(enabled) : enabled[i][1] # last.id /\ ~enabled[i][2]

\* C4: on a registered p, one toggle(p) negates is_enabled(p) and two
\* toggles in a row restore it, whatever the entry was before.
C4_ToggleInvolution ==
    /\ (last.op = "toggle" /\ is_registered(Cur, last.id)) =>
           is_enabled(Cur, last.id) = ~last.was
    /\ \A p \in Ids :
           is_registered(Cur, p) =>
               LET S1 == toggle(Begin, p)
                   S2 == toggle(Restart(S1), p)
               IN  /\ is_enabled(S1, p) = ~is_enabled(Cur, p)
                   /\ is_enabled(S2, p) = is_enabled(Cur, p)

C4_Witness ==
    /\ last.op = "toggle"
    /\ is_registered(Cur, last.id)
    /\ last.was
    /\ Has(enabled, last.id)
    /\ ~is_enabled(Cur, last.id)

\* C5: enable(id) and disable(id) on an unregistered id leave the enabled
\* map as it was, call neither the registry's enable nor disable, publish
\* no event, and still call update_info and update.
C5_UnregisteredEnableDisableNoOp ==
    [][ (last'.op \in {"enable", "disable"} /\ ~is_registered(Cur, last'.id)) =>
            /\ enabled' = enabled
            /\ RegistryCalls(calls') = {}
            /\ Dispatches(calls') = {}
            /\ HasCall(calls', <<"update_info">>)
            /\ HasCall(calls', <<"update">>) ]_vars

C5_Witness ==
    /\ last.op = "disable"
    /\ ~is_registered(Cur, last.id)
    /\ Len(enabled) > 0
    /\ HasCall(calls, <<"update">>)

\* C6 as stated: toggle(id) on an unregistered id changes no entry,
\* publishes no event, and still calls update_info and handle_enabled_types.
C6_ToggleUnregisteredRefreshesSummary ==
    [][ (last'.op = "toggle" /\ ~is_registered(Cur, last'.id)) =>
            /\ enabled' = enabled
            /\ Dispatches(calls') = {}
            /\ HasCall(calls', <<"update_info">>)
            /\ HasCall(calls', <<"handle_enabled_types">>) ]_vars

\* C6 amended: toggle(id) on an unregistered id changes no entry, publishes
\* no event, calls handle_enabled_types and ui.update_tokens, and does not
\* call update_info.
C6_ToggleUnregisteredRefreshesTypes ==
    [][ (last'.op = "toggle" /\ ~is_registered(Cur, last'.id)) =>
            /\ enabled' = enabled
            /\ Dispatches(calls') = {}
            /\ calls' = << <<"toggle", last'.id>>, <<"handle_enabled_types">>,
                           <<"ui.update_tokens">> >> ]_vars

C6_Witness ==
    /\ last.op = "toggle"
    /\ ~is_registered(Cur, last.id)
    /\ HasCall(calls, <<"handle_enabled_types">>)
    /\ err = "none"

\* C7: unregister(id) raises nothing whether or not id has an entry, and
\* leaves id without an entry and is_enabled(id) false.
C7_UnregisterTotal ==
    /\ last.op = "unregister" =>
           /\ err = "none"
           /\ ~Has(enabled, last.id)
           /\ ~is_enabled(Cur, last.id)
    /\ \A id \in Ids : ok(unregister(Begin, id))

C7_Witness ==
    /\ last.op = "unregister"
    /\ last.was
    /\ err = "none"
    /\ ~Has(enabled, last.id)

\* C8: enable(id) / disable(id) on a registered id publish exactly one
\* 'enable' / 'disable' event with value id, also when the flag does not
\* change; two enables in a row publish two events and leave the plugin
\* enabled; a call on an unregistered id publishes none.
C8_OneEventPerAcceptedCall ==
    /\ last.op \in {"enable", "disable"} =>
           IF is_registered(Cur, last.id)
           THEN /\ Cardinality(Dispatches(calls)) = 1
                /\ HasCall(calls, <<"dispatch", last.op, last.id>>)
           ELSE Dispatches(calls) = {}
    /\ \A p \in Ids :
           is_registered(Cur, p) =>
               LET S1 == enable(Begin, p)
                   S2 == enable(Restart(S1), p)
               IN  /\ is_enabled(S2, p)
                   /\ Cardinality(Dispatches(S1.calls)) + Cardinality(Dispatches(S2.calls)) = 2

C8_Witness ==
    /\ last.op = "enable"
    /\ is_registered(Cur, last.id)
    /\ last.was
    /\ is_enabled(Cur, last.id)
    /\ Cardinality(Dispatches(calls)) = 1

\* C9: apply_cmds(ctx, batch) hands no event to the command router when no
\* item of the batch has the key "cmd"; otherwise it hands over exactly one
\* 'cmd.execute' event whose commands are the items with the key, in batch
\* order, and whose ctx is the ctx passed in.
CmdPositions(cmds) == { i \in 1..Len(cmds) : "cmd" \in DOMAIN cmds[i] }

KthCmdPosition(cmds, k) ==
    CHOOSE i \in CmdPositions(cmds) :
        Cardinality({ j \in CmdPositions(cmds) : j <= i }) = k

C9_ApplyCmdsFilters ==
    last.op = "apply_cmds" =>
        IF CmdPositions(last.cmds) = {}
        THEN cmd_events = << >>
        ELSE /\ Len(cmd_events) = 1
             /\ cmd_events[1].name = "cmd.execute"
             /\ cmd_events[1].ctx = last.ctx
             /\ DOMAIN cmd_events[1].data = {"commands"}
             /\ LET commands == cmd_events[1].data.commands
                IN  /\ Len(commands) = Cardinality(CmdPositions(last.cmds))
                    /\ \A k \in 1..Len(commands) :
                           commands[k] = last.cmds[KthCmdPosition(last.cmds, k)]

C9_Witness ==
    /\ last.op = "apply_cmds"
    /\ last.cmds = << [cmd |-> "x"], [foo |-> "1"], [cmd |-> "y"] >>
    /\ Len(cmd_events) = 1
    /\ cmd_events[1].data.commands = << [cmd |-> "x"], [cmd |-> "y"] >>

\* C10: load_config() on a fresh controller calls enable(id) exactly for the
\* ids stored as true, in the order of the mapping, never calls disable, and
\* leaves every registered id enabled iff its stored value is true.
EnableCalls(cs) == SelectSeq(cs, LAMBDA c : c[1] = "enable")

TrueEntries(d) == SelectSeq(d, LAMBDA e : e[2])

C10_LoadConfigReplaysFlags ==
    [][ (last'.op = "load_config" /\ last.op \in {"init", "register"}) =>
            /\ Len(EnableCalls(calls')) = Len(TrueEntries(config.plugins_enabled))
            /\ \A k \in 1..Len(EnableCalls(calls')) :
                   EnableCalls(calls')[k][2] = TrueEntries(config.plugins_enabled)[k][1]
            /\ \A i \in 1..Len(calls') : calls'[i][1] # "disable"
            /\ \A id \in Ids :
                   is_registered(Cur', id) =>
                       (is_enabled(Cur', id) <=>
                            (Has(config.plugins_enabled, id) /\ Get(config.plugins_enabled, id))) ]_vars

\* the registered ids whose flag is true, in get_ids() order
EnabledInOrder == SelectSeq(plugins, LAMBDA p : Has(enabled, p) /\ Get(enabled, p))

ExpectedTooltip ==
    IF Len(EnabledInOrder) = 0 THEN ""
    ELSE IF Len(EnabledInOrder) = 1 THEN PluginName(EnabledInOrder[1])
    ELSE PluginName(EnabledInOrder[1]) \o " + " \o PluginName(EnabledInOrder[2])

ExpectedText ==
    IF Len(EnabledInOrder) = 0 THEN ""
    ELSE IF Len(EnabledInOrder) = 1 THEN "+ 1 chatbox.plugins"
    ELSE "+ 2 chatbox.plugins"

SummaryCurrent == nodes = [text |-> ExpectedText, tooltip |-> ExpectedTooltip]

\* C11 as stated: update_info() publishes the names of the registered enabled
\* plugins in registry order joined by " + " and the text "+ c suffix" ("" when
\* c = 0), computed from the state at the call, so that after any enable,
\* disable or toggle the published summary matches the current state.
C11_SummaryCurrentAfterAnyToggle ==
    /\ update_info(Begin).nodes = [text |-> ExpectedText, tooltip |-> ExpectedTooltip]
    /\ last.op \in {"update_info", "enable", "disable", "toggle"} => SummaryCurrent

\* C11 amended: the same, with toggle restricted to a registered id.
C11_SummaryCurrentAfterRefresh ==
    /\ update_info(Begin).nodes = [text |-> ExpectedText, tooltip |-> ExpectedTooltip]
    /\ last.op \in {"update_info", "enable", "disable"} => SummaryCurrent
    /\ (last.op = "toggle" /\ is_registered(Cur, last.id)) => SummaryCurrent

C11_Witness ==
    /\ last.op = "toggle"
    /\ is_registered(Cur, last.id)
    /\ Len(EnabledInOrder) = 2
    /\ EnabledInOrder[1] = "b"
    /\ nodes.tooltip = "Beta + Alpha"
    /\ nodes.text = "+ 2 chatbox.plugins"

Tags == {"audio.input", "audio.output", "cmd", "text.input"}

\* C12: is_type_enabled(t) is true iff some registered plugin carries t and
\* is enabled; it is false when every carrier of t is disabled or none exists.
C12_TypeEnabledIffCarrierEnabled ==
    \A t \in Tags :
        is_type_enabled(Cur, t) <=>
            \E id \in Ids :
                /\ \E i \in 1..Len(plugins) : plugins[i] = id
                /\ t \in types[id]
                /\ Has(enabled, id)
                /\ Get(enabled, id)

C12_Witness ==
    /\ Len(plugins) = 2
    /\ is_type_enabled(Cur, "audio.input")
    /\ ~is_type_enabled(Cur, "audio.output")
    /\ \E id \in Ids :
           /\ "audio.output" \in types[id]
           /\ is_registered(Cur, id)
           /\ Has(enabled, id)
           /\ ~Get(enabled, id)

\* C13: no controller operation raises an error in any reachable state (an
\* exception thrown by a plugin's own setup/teardown hook is left to C14).
C13_NoOperationRaises ==
    \/ err = "none"
    \/ last.op \in {"setup", "destroy"} /\ err = "Exception"

\* C14: in setup_ui() and destroy() the hook of every plugin of the registry
\* list is invoked even when another plugin's hook fails, and setup_ui() still
\* runs handle_enabled_types afterwards.
C14_HookFailureDoesNotAbort ==
    /\ last.op = "setup" =>
           /\ \A i \in 1..Len(plugins) : HasCall(calls, <<"plugin.setup_ui", plugins[i]>>)
           /\ HasCall(calls, <<"handle_enabled_types">>)
    /\ last.op = "destroy" =>
           \A i \in 1..Len(plugins) : HasCall(calls, <<"core.plugins.destroy", plugins[i]>>)

\* C15 as stated: once enable / disable has written the flag, nothing else
\* runs on the controller before the handler's final refresh, also not an
\* operation invoked by a subscriber during the dispatch of the event.
C15_NothingRunsInsideHandler ==
    [][ ~Idle => pending'.op = "none" ]_vars

\* C15 amended: the event is dispatched after the flag is written and before
\* the summary and the menu are refreshed; until the handler ends only
\* operations invoked by subscribers of the event run, no other handler; a
\* handler in which no subscriber changed anything ends as the one-step
\* enable / disable does.
C15_OnlySubscribersRunInsideHandler ==
    [][ /\ (Idle /\ pending'.op # "none") =>
               /\ Has(enabled', pending'.id)
               /\ Get(enabled', pending'.id) = (pending'.op = "enable")
               /\ nodes' = nodes /\ checked' = checked /\ addon' = addon
               /\ calls'[Len(calls')] = <<"dispatch", pending'.op, pending'.id>>
               /\ after_dispatch(Cur', pending'.id) =
                      IF pending'.op = "enable"
                      THEN enable(Begin, pending'.id)
                      ELSE disable(Begin, pending'.id)
        /\ (~Idle /\ pending'.op # "none") =>
               /\ last'.op \in {"subscriber.is_enabled", "subscriber.toggle"}
               /\ pending'.op = pending.op /\ pending'.id = pending.id
        /\ (~Idle /\ pending'.op = "none") =>
               /\ last'.op = pending.op /\ last'.id = pending.id ]_vars

\* a subscriber sees the flag of the plugin being enabled already set while
\* the summary has not been refreshed
C15_Witness ==
    /\ pending.op = "enable"
    /\ last.op = "subscriber.is_enabled"
    /\ last.id = pending.id
    /\ last.result
    /\ ~pending.was
    /\ ~SummaryCurrent

\* C16: after every completed enable, disable, toggle, update or setup call
\* the audio.input element is visible iff is_type_enabled('audio.input').
C16_AudioInputVisibleIffEnabled ==
    (last.op \in {"enable", "disable", "toggle", "update", "setup"} /\ err = "none") =>
        /\ addon["audio.input"] \in {"shown", "hidden"}
        /\ addon["audio.input"] = "shown" <=> is_type_enabled(Cur, "audio.input")

C16_Witness ==
    /\ last.op = "enable"
    /\ err = "none"
    /\ "audio.input" \in types[last.id]
    /\ ~last.was
    /\ addon["audio.input"] = "shown"

\* C17: the controller never makes the audio.output element visible:
\* handle_enabled_types hides it when is_type_enabled('audio.output') is
\* false and leaves it alone when it is true, so once hidden it stays hidden.
C17_AudioOutputNeverShown ==
    /\ [](addon["audio.output"] # "shown")
    /\ [](handle_enabled_types(Begin).addon["audio.output"] =
              IF is_type_enabled(Cur, "audio.output")
              THEN addon["audio.output"]
              ELSE "hidden")
    /\ [][ addon["audio.output"] = "hidden" => addon'["audio.output"] = "hidden" ]_vars

C17_Witness ==
    /\ last.op = "enable"
    /\ err = "none"
    /\ "audio.output" \in types[last.id]
    /\ is_type_enabled(Cur, "audio.output")
    /\ addon["audio.output"] = "hidden"

Positions(cs, c) == { i \in 1..Len(cs) : cs[i] = c }

CarriesAudio(id) ==
    is_registered(Cur, id) /\ get(Cur, id).type \cap {"audio.input", "audio.output"} # {}

\* C18: during enable(id) / disable(id) the audio controller is notified
\* exactly once when id is registered and its plugin carries 'audio.input' or
\* 'audio.output', and never otherwise; the notification comes after the
\* registry call and the published event and before the summary and menu
\* refresh.
C18_AudioNotifiedOnceForAudioPlugins ==
    last.op \in {"enable", "disable"} =>
        LET A == Positions(calls, <<"audio.update">>)
            D == Positions(calls, <<"dispatch", last.op, last.id>>)
            R == Positions(calls, <<"core.plugins." \o last.op, last.id>>)
            I == Positions(calls, <<"update_info">>)
            U == Positions(calls, <<"update">>)
        IN  /\ Cardinality(A) = IF CarriesAudio(last.id) THEN 1 ELSE 0
            /\ \A a \in A :
                  /\ Has(enabled, last.id)
                  /\ Get(enabled, last.id) = (last.op = "enable")
                  /\ \E r \in R, d \in D : r < d /\ d < a
                  /\ \A i \in I \cup U : a < i
                  /\ I # {}

C18_Witness ==
    /\ last.op = "disable"
    /\ CarriesAudio(last.id)
    /\ HasCall(calls, <<"audio.update">>)
    /\ \E other \in Ids : is_registered(Cur, other) /\ ~CarriesAudio(other)

MenuInSync ==
    \A id \in menu :
        /\ id \in checked <=> (Has(enabled, id) /\ Get(enabled, id))
        /\ id \in checked <=> is_enabled(Cur, id)

\* C19 (as stated): after every completed setup, enable, disable, toggle or
\* update call, every menu entry is checked iff the enabled map holds true
\* for its id, equivalently iff is_enabled(id).
C19_MenuInSyncAfterAnyToggle ==
    (last.op \in {"setup", "enable", "disable", "toggle", "update"} /\ err = "none")
        => MenuInSync

\* C19 (amended): the same, with toggle restricted to a registered id; a
\* toggle of an unregistered id does not refresh the menu.
C19_MenuInSyncAfterRefresh ==
    ( /\ last.op \in {"setup", "enable", "disable", "toggle", "update"}
      /\ err = "none"
      /\ last.op = "toggle" => is_registered(Cur, last.id) )
        => MenuInSync

C19_Witness ==
    /\ last.op = "toggle"
    /\ err = "none"
    /\ is_registered(Cur, last.id)
    /\ last.was
    /\ last.id \in menu
    /\ last.id \notin checked
    /\ \E other \in menu : other \in checked

SameEntry(d1, d2, id) ==
    /\ Has(d1, id) <=> Has(d2, id)
    /\ Has(d1, id) => Get(d1, id) = Get(d2, id)

\* C20: enable(id), disable(id), toggle(id) and unregister(id) leave the
\* enabled-map entry of every other id as it was; update, update_info,
\* handle_enabled_types and apply_cmds leave the whole enabled map as it was.
C20_OtherEntriesUntouched ==
    /\ [][ /\ last'.op \in {"enable", "disable", "toggle", "unregister"} =>
                \A other \in Ids \ {last'.id} : SameEntry(enabled, enabled', other)
           /\ last'.op \in {"update", "update_info"} => enabled' = enabled ]_vars
    /\ [](handle_enabled_types(Begin).enabled = enabled)
    /\ [](\A ctx \in Ctxs, item \in CmdItems :
              /\ apply_cmds(Begin, ctx, <<item>>).enabled = enabled
              /\ apply_cmds(Begin, ctx, <<item, item>>).enabled = enabled)

C20_Witness ==
    /\ last.op = "unregister"
    /\ last.was
    /\ ~Has(enabled, last.id)
    /\ \E other \in Ids \ {last.id} : Has(enabled, other) /\ Get(enabled, other)

====
